---- MODULE Spec2Model ----
(***************************************************************************)
(* A model of ShareeModel (src/gui/filedetails/shareemodel.cpp): the       *)
(* debounced sharee search of the file-details share dialog.               *)
(*                                                                         *)
(* QString values are sequences of one-character strings, so that          *)
(* concatenation and formatting are computed.  JSON values are tagged      *)
(* records, read with the defaulting rules of QJsonValue.                  *)
(***************************************************************************)
EXTENDS Integers, Sequences, FiniteSets, TLC

VARIABLES
    accountState,        \* _accountState: "null", "noAccount" (account() is null) or "valid"
    shareItemIsFolder,   \* _shareItemIsFolder
    searchString,        \* _searchString
    lookupMode,          \* _lookupMode
    fetchOngoing,        \* _fetchOngoing
    sharees,             \* _sharees, the published list
    shareeBlacklist,     \* _shareeBlacklist
    timer,               \* _userStoppedTypingTimer: [active, remaining (ms)]
    jobSeq,              \* number of OcsShareeJob objects created so far
    inflight,            \* the jobs whose response has not been handled yet
    emitted,             \* what the last handler emitted and called, in order
    lastResponse,        \* the response handled last
    sinceEdit,           \* ms elapsed since the search text last changed (saturating)
    settles,             \* timer expiries since the search text last changed
    dataCall,            \* the last indexed read: its arguments and its outcome
    burst,               \* the text changes of the current window: "none", "one" or "several"
    folderAtEdit         \* _shareItemIsFolder as it was at the last text change

vars == <<accountState, shareItemIsFolder, searchString, lookupMode, fetchOngoing,
          sharees, shareeBlacklist, timer, jobSeq, inflight, emitted, lastResponse,
          sinceEdit, settles, dataCall, burst, folderAtEdit>>

(***************************************************************************)
(* Bounds of the model and constants of the program.                       *)
(***************************************************************************)
MaxJobs == 2
TickMs == 250
Interval == 500
Page == 1
PerPage == 50

Min(a, b) == IF a < b THEN a ELSE b

(***************************************************************************)
(* QJsonValue / QJsonObject / QJsonArray.                                  *)
(***************************************************************************)
JUndefined == [t |-> "undefined"]
JString(s) == [t |-> "string", s |-> s]
JInt(n) == [t |-> "int", n |-> n]
JArray(a) == [t |-> "array", a |-> a]
JObject(o) == [t |-> "object", o |-> o]
EmptyObject == [k \in {} |-> JUndefined]

\* QJsonObject::value(key): the undefined value when the key is absent
value(obj, key) == IF key \in DOMAIN obj THEN obj[key] ELSE JUndefined
\* QJsonValue::toObject(): the empty object when the value is not an object
toObject(v) == IF v.t = "object" THEN v.o ELSE EmptyObject
\* QJsonDocument::object(): the empty object when the document is not an object
object(doc) == toObject(doc)
\* QJsonValue::toArray(): the empty array when the value is not an array
toArray(v) == IF v.t = "array" THEN v.a ELSE <<>>
\* QJsonValue::toString(): the null string when the value is not a string
toString(v) == IF v.t = "string" THEN v.s ELSE <<>>
\* QJsonValue::toInt(): 0 when the value is not a number
toInt(v) == IF v.t = "int" THEN v.n ELSE 0

(***************************************************************************)
(* Sharee and ShareeModel::parseSharee.                                    *)
(***************************************************************************)
Sharee(shareWith, displayName, type) ==
    [shareWith |-> shareWith, displayName |-> displayName, type |-> type]

\* tr("%1 (%2)").arg(displayName, additionalInfo)
formatWithInfo(displayName, additionalInfo) ==
    displayName \o <<" ", "(">> \o additionalInfo \o <<")">>

\* a parse that formats the display name whether or not there is additional info
parseSharee_alwaysFormats(data) ==
    LET label == toString(value(data, "label"))
        shareWith == toString(value(toObject(value(data, "value")), "shareWith"))
        type == toInt(value(toObject(value(data, "value")), "shareType"))
        additionalInfo ==
            toString(value(toObject(value(data, "value")), "shareWithAdditionalInfo"))
    IN  Sharee(shareWith, formatWithInfo(label, additionalInfo), type)

parseSharee(data) ==
    LET label == toString(value(data, "label"))
        shareWith == toString(value(toObject(value(data, "value")), "shareWith"))
        type == toInt(value(toObject(value(data, "value")), "shareType"))
        additionalInfo ==
            toString(value(toObject(value(data, "value")), "shareWithAdditionalInfo"))
        displayName == IF additionalInfo # <<>>
                       THEN formatWithInfo(label, additionalInfo)
                       ELSE label
    IN  Sharee(shareWith, displayName, type)

(***************************************************************************)
(* ShareeModel::shareesFetched: the merge of a reply into a new list.      *)
(***************************************************************************)
\* the categories in alphabetical order
shareeTypes_alphabetical ==
    <<"circles", "emails", "groups", "remotes", "rooms", "users">>

shareeTypes == <<"users", "groups", "emails", "remotes", "circles", "rooms">>

\* a match on the identifier alone
inBlacklist_byShareWithOnly(parsedSharee, blacklist) ==
    \E i \in 1..Len(blacklist) : parsedSharee.shareWith = blacklist[i].shareWith

\* the std::find_if over _shareeBlacklist
inBlacklist(parsedSharee, blacklist) ==
    \E i \in 1..Len(blacklist) :
        /\ parsedSharee.type = blacklist[i].type
        /\ parsedSharee.shareWith = blacklist[i].shareWith

\* a loop that skips an entry already in the new list
RECURSIVE appendCategory_dedupes(_, _, _, _)
appendCategory_dedupes(category, i, blacklist, newSharees) ==
    IF i > Len(category) THEN newSharees
    ELSE LET parsedSharee == parseSharee(toObject(category[i]))
         IN  IF \/ inBlacklist(parsedSharee, blacklist)
                \/ inBlacklist(parsedSharee, newSharees)
             THEN appendCategory_dedupes(category, i + 1, blacklist, newSharees)
             ELSE appendCategory_dedupes(category, i + 1, blacklist,
                                         Append(newSharees, parsedSharee))

\* a loop that skips the entries that have no value object
RECURSIVE appendCategory_skipsMalformed(_, _, _, _)
appendCategory_skipsMalformed(category, i, blacklist, newSharees) ==
    IF i > Len(category) THEN newSharees
    ELSE LET parsedSharee == parseSharee(toObject(category[i]))
         IN  IF \/ inBlacklist(parsedSharee, blacklist)
                \/ value(toObject(category[i]), "value").t # "object"
             THEN appendCategory_skipsMalformed(category, i + 1, blacklist, newSharees)
             ELSE appendCategory_skipsMalformed(category, i + 1, blacklist,
                                                Append(newSharees, parsedSharee))

\* the inner loop of appendSharees: the entries of one category, from entry i on
RECURSIVE appendCategory(_, _, _, _)
appendCategory(category, i, blacklist, newSharees) ==
    IF i > Len(category) THEN newSharees
    ELSE LET parsedSharee == parseSharee(toObject(category[i]))
         IN  IF inBlacklist(parsedSharee, blacklist)
             THEN appendCategory(category, i + 1, blacklist, newSharees)
             ELSE appendCategory(category, i + 1, blacklist,
                                 Append(newSharees, parsedSharee))

\* the outer loop of appendSharees: the categories of shareeTypes, from k on
RECURSIVE appendShareesFrom(_, _, _, _)
appendShareesFrom(data, k, blacklist, newSharees) ==
    IF k > Len(shareeTypes) THEN newSharees
    ELSE appendShareesFrom(data, k + 1, blacklist,
             appendCategory(toArray(value(data, shareeTypes[k])), 1, blacklist,
                            newSharees))

appendSharees(data, blacklist, newSharees) ==
    appendShareesFrom(data, 1, blacklist, newSharees)

\* newSharees as shareesFetched builds it from a reply
newShareesOf(reply, blacklist) ==
    LET replyDataObject == toObject(value(toObject(value(object(reply), "ocs")), "data"))
        replyDataExactMatchObject == toObject(value(replyDataObject, "exact"))
    IN  appendSharees(replyDataExactMatchObject, blacklist,
                      appendSharees(replyDataObject, blacklist, <<>>))

(***************************************************************************)
(* ShareeModel::data.  Rows are 0-based, as in QModelIndex.  QVector::at   *)
(* with an index outside [0, size) is undefined behaviour (an assertion    *)
(* failure in builds with assertions, an out-of-bounds read otherwise):    *)
(* every outcome such a read can have is a possible result.                *)
(***************************************************************************)
\* ShareeModel::rowCount, for a model whose _accountState is `state` and whose
\* _sharees is `list`
rowCount(parentIsValid, state, list) ==
    IF parentIsValid \/ state = "null" THEN 0 ELSE Len(list)

Roles == {"DisplayRole", "AutoCompleterStringMatchRole", "ShareeRole", "UnknownRole"}

\* QVariant(): the empty result; `at` tells whether _sharees.at() was evaluated
NullVariant == [kind |-> "null", val |-> <<>>, at |-> "none"]

\* Sharee::format()
format(sharee) == sharee.displayName

\* the switch over role, for a sharee read from the list
roleValue(sharee, role) ==
    CASE role = "DisplayRole" ->
             [kind |-> "string", val |-> format(sharee), at |-> "inRange"]
      [] role = "AutoCompleterStringMatchRole" ->
             [kind |-> "string",
              val |-> sharee.displayName \o <<" ", "(">> \o sharee.shareWith \o <<")">>,
              at |-> "inRange"]
      [] role = "ShareeRole" ->
             [kind |-> "sharee", val |-> sharee, at |-> "inRange"]
      [] OTHER ->
             [kind |-> "null", val |-> <<>>, at |-> "inRange"]

\* the results data(index, role) can have on list `list` for index.row() = row
data(list, row, role) ==
    IF row < 0 \/ row > Len(list)
    THEN {NullVariant}
    ELSE IF row < Len(list)
         THEN {roleValue(list[row + 1], role)}
         ELSE {[kind |-> "crash", val |-> <<>>, at |-> "outOfRange"],
               [kind |-> "null", val |-> <<>>, at |-> "outOfRange"],
               [kind |-> "garbage", val |-> <<>>, at |-> "outOfRange"]}

(***************************************************************************)
(* Inputs: search texts, errors, blacklists and reply documents.           *)
(***************************************************************************)
AccountStates == {"null", "noAccount", "valid"}
LookupModes == {"LocalSearch", "GlobalSearch"}
SearchStrings == {<<>>, <<"a">>, <<"b">>}
StatusCodes == {403, 500}
Messages == {"Forbidden"}

Entry(label, shareWith, shareType) ==
    JObject([label |-> JString(label),
             value |-> JObject([shareWith |-> JString(shareWith),
                                shareType |-> JInt(shareType)])])

EntryWithInfo(label, shareWith, shareType, info) ==
    JObject([label |-> JString(label),
             value |-> JObject([shareWith |-> JString(shareWith),
                                shareType |-> JInt(shareType),
                                shareWithAdditionalInfo |-> JString(info)])])

eAnn == Entry(<<"A", "n", "n">>, <<"a", "n", "n">>, 0)
eBob == Entry(<<"B", "o", "b">>, <<"b", "o", "b">>, 0)
eAnnGroup == Entry(<<"A", "n", "n", "s">>, <<"a", "n", "n">>, 1)
eMail == EntryWithInfo(<<"M">>, <<"m", "@", "x">>, 4, <<"w", "o", "r", "k">>)
eRemote == Entry(<<"R">>, <<"r", "@", "y">>, 6)
eCircle == Entry(<<"C">>, <<"c">>, 7)
eRoom == EntryWithInfo(<<"T">>, <<"t">>, 10, <<>>)
\* type code 3 is not a member of Sharee::Type
eUnknownType == Entry(<<"Z">>, <<"z">>, 3)
\* entries with parts missing: no label, no value, no shareType, not an object
eNoLabel == JObject([value |-> JObject([shareWith |-> JString(<<"n">>),
                                        shareType |-> JInt(1)])])
eNoValue == JObject([label |-> JString(<<"L">>)])
eNoType == JObject([label |-> JString(<<"U">>),
                    value |-> JObject([shareWith |-> JString(<<"u">>)])])
eNotObject == JString(<<"x">>)

\* a reply: the broad segment is ocs.data itself, the exact segment ocs.data.exact
Doc(broad, exact) ==
    JObject([ocs |-> JObject([data |-> JObject(broad @@ [exact |-> JObject(exact)])])])
DocNoExact(broad) ==
    JObject([ocs |-> JObject([data |-> JObject(broad)])])

SegUsers == [users |-> JArray(<<eAnn, eBob>>)]
SegMixed == [groups |-> JArray(<<eAnnGroup>>), users |-> JArray(<<eBob, eAnn>>)]
SegAll == [rooms |-> JArray(<<eRoom>>), circles |-> JArray(<<eCircle>>),
           remotes |-> JArray(<<eRemote>>), emails |-> JArray(<<eMail>>),
           groups |-> JArray(<<eAnnGroup>>), users |-> JArray(<<eAnn>>)]
SegTail == [rooms |-> JArray(<<eRoom, eAnn>>), emails |-> JArray(<<>>),
            remotes |-> JArray(<<eRemote>>)]
\* malformed entries, a category that is not an array, an unrecognised type code
SegMalformed == [users |-> JArray(<<eNoLabel, eNoValue, eNoType, eNotObject>>),
                 groups |-> JString(<<"x">>),
                 rooms |-> JArray(<<eUnknownType>>)]
Segments == {EmptyObject, SegUsers, SegMixed, SegAll, SegTail, SegMalformed}

\* replies without a data object: a null document, no ocs, ocs not an object, no data
DocNull == JUndefined
DocNoOcs == JObject(EmptyObject)
DocOcsNotObject == JObject([ocs |-> JString(<<"x">>)])
DocNoData == JObject([ocs |-> JObject(EmptyObject)])
NoDataDocs == {DocNull, DocNoOcs, DocOcsNotObject, DocNoData}

AllReplyDocs ==
    {Doc(b, e) : b \in Segments, e \in Segments}
        \cup {DocNoExact(b) : b \in Segments}
        \cup NoDataDocs

DocA == Doc([users |-> JArray(<<eAnn>>)], [users |-> JArray(<<eAnn>>)])
DocB == Doc([groups |-> JArray(<<eAnnGroup>>), users |-> JArray(<<eBob>>)], EmptyObject)
ReplyDocs == {DocA, DocB}

sAnn == Sharee(<<"a", "n", "n">>, <<"A", "n", "n">>, 0)
sBobGroup == Sharee(<<"b", "o", "b">>, <<"B">>, 1)
sRemote == Sharee(<<"r", "@", "y">>, <<>>, 6)
sRoom == Sharee(<<"t">>, <<"T">>, 10)
Blacklists == {<<>>, <<sAnn>>, <<sBobGroup>>, <<sRemote, sAnn>>, <<sRoom, sBobGroup>>}

(***************************************************************************)
(* The state machine.  `emitted` lists what the last handler emitted and   *)
(* which request it sent, in order; each entry carries the values of       *)
(* fetchOngoing and of the list that a directly connected observer reads   *)
(* at that moment.                                                         *)
(***************************************************************************)
Ev(sig, args, ongoing, list) ==
    [sig |-> sig, args |-> args, fetchOngoing |-> ongoing, sharees |-> list]

NoResponse == [job |-> 0, kind |-> "none", doc |-> JUndefined, code |-> 0, message |-> ""]
NoCall == [row |-> 0, role |-> "DisplayRole", result |-> NullVariant, size |-> 0, called |-> FALSE]

\* the state after the constructor
Init ==
    /\ accountState = "null"
    /\ shareItemIsFolder = FALSE
    /\ searchString = <<>>
    /\ lookupMode = "LocalSearch"
    /\ fetchOngoing = FALSE
    /\ sharees = <<>>
    /\ shareeBlacklist = <<>>
    /\ timer = [active |-> FALSE, remaining |-> Interval]
    /\ jobSeq = 0
    /\ inflight = {}
    /\ emitted = <<>>
    /\ lastResponse = NoResponse
    /\ sinceEdit = Interval
    /\ settles = 0
    /\ dataCall = NoCall
    /\ burst = "none"
    /\ folderAtEdit = FALSE

setAccountState(a) ==
    /\ IF a = accountState
       THEN /\ UNCHANGED accountState
            /\ emitted' = <<>>
       ELSE /\ accountState' = a
            /\ emitted' = <<Ev("accountStateChanged", <<>>, fetchOngoing, sharees)>>
    /\ UNCHANGED <<shareItemIsFolder, searchString, lookupMode, fetchOngoing, sharees,
                   shareeBlacklist, timer, jobSeq, inflight, lastResponse, sinceEdit,
                   settles, dataCall, burst, folderAtEdit>>

setShareItemIsFolder(f) ==
    /\ IF f = shareItemIsFolder
       THEN /\ UNCHANGED shareItemIsFolder
            /\ emitted' = <<>>
       ELSE /\ shareItemIsFolder' = f
            /\ emitted' = <<Ev("shareItemIsFolderChanged", <<>>, fetchOngoing, sharees)>>
    /\ UNCHANGED <<accountState, searchString, lookupMode, fetchOngoing, sharees,
                   shareeBlacklist, timer, jobSeq, inflight, lastResponse, sinceEdit,
                   settles, dataCall, burst, folderAtEdit>>

setLookupMode(m) ==
    /\ IF m = lookupMode
       THEN /\ UNCHANGED lookupMode
            /\ emitted' = <<>>
       ELSE /\ lookupMode' = m
            /\ emitted' = <<Ev("lookupModeChanged", <<>>, fetchOngoing, sharees)>>
    /\ UNCHANGED <<accountState, shareItemIsFolder, searchString, fetchOngoing, sharees,
                   shareeBlacklist, timer, jobSeq, inflight, lastResponse, sinceEdit,
                   settles, dataCall, burst, folderAtEdit>>

\* a start that leaves a running timer alone
timerStart_keepsRunning ==
    IF timer.active THEN timer ELSE [active |-> TRUE, remaining |-> Interval]

\* QTimer::start() on the single-shot timer: (re)starts the full interval
timerStart == [active |-> TRUE, remaining |-> Interval]

\* a setter that restarts the timer before comparing the text
setSearchString_alwaysRestarts(s) ==
    /\ IF s = searchString
       THEN /\ UNCHANGED <<searchString, sinceEdit, settles, burst, folderAtEdit>>
            /\ timer' = timerStart
            /\ emitted' = <<>>
       ELSE /\ searchString' = s
            /\ emitted' = <<Ev("searchStringChanged", <<>>, fetchOngoing, sharees)>>
            /\ timer' = timerStart
            /\ sinceEdit' = 0
            /\ settles' = 0
            /\ burst' = IF timer.active THEN "several" ELSE "one"
            /\ folderAtEdit' = shareItemIsFolder
    /\ UNCHANGED <<accountState, shareItemIsFolder, lookupMode, fetchOngoing, sharees,
                   shareeBlacklist, jobSeq, inflight, lastResponse, dataCall>>

\* a setter that clears the list when the text is cleared
setSearchString_clearsOnEmpty(s) ==
    /\ IF s = searchString
       THEN /\ UNCHANGED <<searchString, timer, sinceEdit, settles, burst, folderAtEdit,
                           sharees>>
            /\ emitted' = <<>>
       ELSE /\ searchString' = s
            /\ sharees' = IF s = <<>> THEN <<>> ELSE sharees
            /\ emitted' = <<Ev("searchStringChanged", <<>>, fetchOngoing, sharees)>>
            /\ timer' = timerStart
            /\ sinceEdit' = 0
            /\ settles' = 0
            /\ burst' = IF timer.active THEN "several" ELSE "one"
            /\ folderAtEdit' = shareItemIsFolder
    /\ UNCHANGED <<accountState, shareItemIsFolder, lookupMode, fetchOngoing,
                   shareeBlacklist, jobSeq, inflight, lastResponse, dataCall>>

setSearchString(s) ==
    /\ IF s = searchString
       THEN /\ UNCHANGED <<searchString, timer, sinceEdit, settles, burst, folderAtEdit>>
            /\ emitted' = <<>>
       ELSE /\ searchString' = s
            /\ emitted' = <<Ev("searchStringChanged", <<>>, fetchOngoing, sharees)>>
            /\ timer' = timerStart
            /\ sinceEdit' = 0
            /\ settles' = 0
            /\ burst' = IF timer.active THEN "several" ELSE "one"
            /\ folderAtEdit' = shareItemIsFolder
    /\ UNCHANGED <<accountState, shareItemIsFolder, lookupMode, fetchOngoing, sharees,
                   shareeBlacklist, jobSeq, inflight, lastResponse, dataCall>>

\* time passes: by TickMs, and not beyond the expiry of a running timer
Tick ==
    /\ ~(timer.active /\ timer.remaining = 0)
    /\ LET d == IF timer.active THEN Min(TickMs, timer.remaining) ELSE TickMs
       IN  /\ timer' = IF timer.active
                       THEN [timer EXCEPT !.remaining = timer.remaining - d]
                       ELSE timer
           /\ sinceEdit' = Min(sinceEdit + d, Interval)
    /\ UNCHANGED <<accountState, shareItemIsFolder, searchString, lookupMode,
                   fetchOngoing, sharees, shareeBlacklist, jobSeq, inflight, emitted,
                   lastResponse, settles, dataCall, burst, folderAtEdit>>

shareItemTypeString == IF shareItemIsFolder THEN "folder" ELSE "file"

\* the arguments with the item kind as it was at the last text change
getShareesArgs_atEdit ==
    [search |-> searchString,
     itemType |-> IF folderAtEdit THEN "folder" ELSE "file",
     page |-> Page, perPage |-> PerPage,
     lookup |-> (lookupMode = "GlobalSearch")]

\* the arguments of job->getSharees(...)
getShareesArgs ==
    [search |-> searchString, itemType |-> shareItemTypeString, page |-> Page,
     perPage |-> PerPage, lookup |-> (lookupMode = "GlobalSearch")]

\* a fetch that returns early while another fetch is ongoing
fetch_skipsWhileOngoing ==
    IF accountState = "null" \/ accountState = "noAccount" \/ searchString = <<>>
       \/ fetchOngoing
    THEN /\ emitted' = <<>>
         /\ UNCHANGED <<fetchOngoing, jobSeq, inflight>>
    ELSE /\ fetchOngoing' = TRUE
         /\ jobSeq' = jobSeq + 1
         /\ inflight' = inflight \cup {jobSeq + 1}
         /\ emitted' = <<Ev("fetchOngoingChanged", <<>>, TRUE, sharees),
                         Ev("getSharees", getShareesArgs, TRUE, sharees)>>

\* a fetch without the check for an empty search text
fetch_noEmptyCheck ==
    IF accountState = "null" \/ accountState = "noAccount"
    THEN /\ emitted' = <<>>
         /\ UNCHANGED <<fetchOngoing, jobSeq, inflight>>
    ELSE /\ fetchOngoing' = TRUE
         /\ jobSeq' = jobSeq + 1
         /\ inflight' = inflight \cup {jobSeq + 1}
         /\ emitted' = <<Ev("fetchOngoingChanged", <<>>, TRUE, sharees),
                         Ev("getSharees", getShareesArgs, TRUE, sharees)>>

\* ShareeModel::fetch
fetch ==
    IF accountState = "null" \/ accountState = "noAccount" \/ searchString = <<>>
    THEN /\ emitted' = <<>>
         /\ UNCHANGED <<fetchOngoing, jobSeq, inflight>>
    ELSE /\ fetchOngoing' = TRUE
         /\ jobSeq' = jobSeq + 1
         /\ inflight' = inflight \cup {jobSeq + 1}
         /\ emitted' = <<Ev("fetchOngoingChanged", <<>>, TRUE, sharees),
                         Ev("getSharees", getShareesArgs, TRUE, sharees)>>

\* the timer's timeout signal, connected to fetch; the timer is single-shot
Timeout ==
    /\ timer.active
    /\ timer.remaining = 0
    /\ timer' = [timer EXCEPT !.active = FALSE]
    /\ settles' = Min(settles + 1, 2)
    /\ fetch
    /\ UNCHANGED <<accountState, shareItemIsFolder, searchString, lookupMode, sharees,
                   shareeBlacklist, lastResponse, sinceEdit, dataCall, burst, folderAtEdit>>

\* a handler that applies only the reply of the request issued last
shareesFetched_dropsStale(j, reply) ==
    /\ j \in inflight
    /\ inflight' = inflight \ {j}
    /\ LET newSharees == IF j = jobSeq THEN newShareesOf(reply, shareeBlacklist)
                         ELSE sharees
       IN  /\ fetchOngoing' = FALSE
           /\ sharees' = newSharees
           /\ emitted' = <<Ev("fetchOngoingChanged", <<>>, FALSE, sharees),
                           Ev("beginResetModel", <<>>, FALSE, sharees),
                           Ev("endResetModel", <<>>, FALSE, newSharees),
                           Ev("shareesReady", <<>>, FALSE, newSharees)>>
    /\ lastResponse' = [job |-> j, kind |-> "success", doc |-> reply, code |-> 0,
                        message |-> ""]
    /\ UNCHANGED <<accountState, shareItemIsFolder, searchString, lookupMode,
                   shareeBlacklist, timer, jobSeq, sinceEdit, settles, dataCall, burst,
                   folderAtEdit>>

\* a handler that announces the results before the reset has ended
shareesFetched_readyInsideReset(j, reply) ==
    /\ j \in inflight
    /\ inflight' = inflight \ {j}
    /\ LET newSharees == newShareesOf(reply, shareeBlacklist)
       IN  /\ fetchOngoing' = FALSE
           /\ sharees' = newSharees
           /\ emitted' = <<Ev("fetchOngoingChanged", <<>>, FALSE, sharees),
                           Ev("beginResetModel", <<>>, FALSE, sharees),
                           Ev("shareesReady", <<>>, FALSE, sharees),
                           Ev("endResetModel", <<>>, FALSE, newSharees)>>
    /\ lastResponse' = [job |-> j, kind |-> "success", doc |-> reply, code |-> 0,
                        message |-> ""]
    /\ UNCHANGED <<accountState, shareItemIsFolder, searchString, lookupMode,
                   shareeBlacklist, timer, jobSeq, sinceEdit, settles, dataCall, burst,
                   folderAtEdit>>

\* ShareeModel::shareesFetched, run by job j's shareeJobFinished(reply)
shareesFetched(j, reply) ==
    /\ j \in inflight
    /\ inflight' = inflight \ {j}
    /\ LET newSharees == newShareesOf(reply, shareeBlacklist)
       IN  /\ fetchOngoing' = FALSE
           /\ sharees' = newSharees
           /\ emitted' = <<Ev("fetchOngoingChanged", <<>>, FALSE, sharees),
                           Ev("beginResetModel", <<>>, FALSE, sharees),
                           Ev("endResetModel", <<>>, FALSE, newSharees),
                           Ev("shareesReady", <<>>, FALSE, newSharees)>>
    /\ lastResponse' = [job |-> j, kind |-> "success", doc |-> reply, code |-> 0,
                        message |-> ""]
    /\ UNCHANGED <<accountState, shareItemIsFolder, searchString, lookupMode,
                   shareeBlacklist, timer, jobSeq, sinceEdit, settles, dataCall, burst, folderAtEdit>>

\* an error handler that also clears the list
ocsError_clearsList(j, statusCode, message) ==
    /\ j \in inflight
    /\ inflight' = inflight \ {j}
    /\ fetchOngoing' = FALSE
    /\ sharees' = <<>>
    /\ emitted' = <<Ev("fetchOngoingChanged", <<>>, FALSE, sharees),
                    Ev("displayErrorMessage", <<statusCode, message>>, FALSE, sharees)>>
    /\ lastResponse' = [job |-> j, kind |-> "error", doc |-> JUndefined,
                        code |-> statusCode, message |-> message]
    /\ UNCHANGED <<accountState, shareItemIsFolder, searchString, lookupMode,
                   shareeBlacklist, timer, jobSeq, sinceEdit, settles, dataCall, burst,
                   folderAtEdit>>

\* an error handler that leaves the flag set
ocsError_keepsFlag(j, statusCode, message) ==
    /\ j \in inflight
    /\ inflight' = inflight \ {j}
    /\ emitted' = <<Ev("displayErrorMessage", <<statusCode, message>>, fetchOngoing,
                       sharees)>>
    /\ lastResponse' = [job |-> j, kind |-> "error", doc |-> JUndefined,
                        code |-> statusCode, message |-> message]
    /\ UNCHANGED <<accountState, shareItemIsFolder, searchString, lookupMode, sharees,
                   fetchOngoing, shareeBlacklist, timer, jobSeq, sinceEdit, settles,
                   dataCall, burst, folderAtEdit>>

\* the lambda connected to job j's ocsError(statusCode, message)
ocsError(j, statusCode, message) ==
    /\ j \in inflight
    /\ inflight' = inflight \ {j}
    /\ fetchOngoing' = FALSE
    /\ emitted' = <<Ev("fetchOngoingChanged", <<>>, FALSE, sharees),
                    Ev("displayErrorMessage", <<statusCode, message>>, FALSE, sharees)>>
    /\ lastResponse' = [job |-> j, kind |-> "error", doc |-> JUndefined,
                        code |-> statusCode, message |-> message]
    /\ UNCHANGED <<accountState, shareItemIsFolder, searchString, lookupMode, sharees,
                   shareeBlacklist, timer, jobSeq, sinceEdit, settles, dataCall, burst, folderAtEdit>>

\* the user may edit while a request can still be issued for the edit
CanEdit == timer.active \/ jobSeq < MaxJobs

SetAccountState == \E a \in AccountStates : setAccountState(a)
SetShareItemIsFolder == \E f \in BOOLEAN : setShareItemIsFolder(f)
SetLookupMode == \E m \in LookupModes : setLookupMode(m)
SetSearchString == \E s \in SearchStrings : CanEdit /\ setSearchString(s)
ShareeJobFinished == \E j \in inflight, reply \in ReplyDocs : shareesFetched(j, reply)
OcsError == \E j \in inflight, c \in StatusCodes, m \in Messages : ocsError(j, c, m)

Next ==
    \/ SetAccountState
    \/ SetShareItemIsFolder
    \/ SetLookupMode
    \/ SetSearchString
    \/ Tick
    \/ Timeout
    \/ ShareeJobFinished
    \/ OcsError

Spec == Init /\ [][Next]_vars

\* the event loop lets time pass and delivers the timeout of an expired timer
FairSpec == Spec /\ WF_vars(Tick) /\ WF_vars(Timeout)

(***************************************************************************)
(* The merge and the indexed read on their own: a request is in flight,    *)
(* the blacklist and the reply range over the inputs, and the list is      *)
(* read at every row around its bounds.                                     *)
(***************************************************************************)
InitParse ==
    /\ accountState = "valid"
    /\ shareItemIsFolder = FALSE
    /\ searchString = <<"a">>
    /\ lookupMode = "LocalSearch"
    /\ fetchOngoing = TRUE
    /\ sharees = <<>>
    /\ shareeBlacklist \in Blacklists
    /\ timer = [active |-> FALSE, remaining |-> 0]
    /\ jobSeq = 1
    /\ inflight = {1}
    /\ emitted = <<Ev("fetchOngoingChanged", <<>>, TRUE, <<>>),
                   Ev("getSharees", getShareesArgs, TRUE, <<>>)>>
    /\ lastResponse = NoResponse
    /\ sinceEdit = Interval
    /\ settles = 1
    /\ dataCall = NoCall
    /\ burst = "one"
    /\ folderAtEdit = FALSE

\* a call of data(index, role) with index.row() = row
dataRead(row, role) ==
    /\ \E r \in data(sharees, row, role) :
           dataCall' = [row |-> row, role |-> role, result |-> r,
                        size |-> Len(sharees), called |-> TRUE]
    /\ UNCHANGED <<accountState, shareItemIsFolder, searchString, lookupMode,
                   fetchOngoing, sharees, shareeBlacklist, timer, jobSeq, inflight,
                   emitted, lastResponse, sinceEdit, settles, burst, folderAtEdit>>

DataRead == \E row \in -1..(Len(sharees) + 1), role \in Roles : dataRead(row, role)
AnyShareeJobFinished ==
    \E j \in inflight, reply \in AllReplyDocs : shareesFetched(j, reply)

NextParse ==
    \/ AnyShareeJobFinished
    \/ DataRead

SpecParse == InitParse /\ [][NextParse]_vars

(***************************************************************************)
(* Properties.                                                             *)
(***************************************************************************)
\* a step that handles a response (each job is handled once, so the record changes)
ResponseStep == lastResponse' # lastResponse
\* a step in which the running timer expires
SettleStep == timer.active /\ ~timer'.active
\* the signals of `emitted`, in order
Sigs(evs) == [i \in 1..Len(evs) |-> evs[i].sig]

\* C1: a fetch issued while another is in flight joins it (nothing is cancelled),
\* and after a success response has been handled the published list is the one
\* built from that response, whichever request it answers: the response that
\* arrived last decides the list, not the request issued last.
C1_LastArrivedWins ==
    /\ [](lastResponse.kind = "success"
            => sharees = newShareesOf(lastResponse.doc, shareeBlacklist))
    /\ [][jobSeq' # jobSeq => inflight' = inflight \cup {jobSeq'}]_vars

\* two requests overlapped, the second was answered first, and the list is the one
\* of the first request's reply, which replaced the second's
C1_Witness ==
    /\ jobSeq = 2
    /\ inflight = {}
    /\ lastResponse.kind = "success"
    /\ lastResponse.job = 1
    /\ lastResponse.doc = DocA
    /\ sharees = newShareesOf(DocA, <<>>)
    /\ Len(emitted) = 4
    /\ emitted[2].sharees = newShareesOf(DocB, <<>>)
    /\ emitted[2].sharees # sharees

\* the candidates of one category of a segment that the blacklist does not match
Excluded(c, blacklist) ==
    \E e \in {blacklist[i] : i \in 1..Len(blacklist)} :
        e.type = c.type /\ e.shareWith = c.shareWith
RawEntries(segment, name) ==
    IF name \in DOMAIN segment /\ segment[name].t = "array" THEN segment[name].a ELSE <<>>
Kept(segment, name, blacklist) ==
    LET raw == RawEntries(segment, name)
        cands == [i \in 1..Len(raw) |-> parseSharee(toObject(raw[i]))]
    IN  SelectSeq(cands, LAMBDA c : ~Excluded(c, blacklist))
KeptOfSegment(segment, blacklist) ==
    Kept(segment, "users", blacklist) \o Kept(segment, "groups", blacklist)
        \o Kept(segment, "emails", blacklist) \o Kept(segment, "remotes", blacklist)
        \o Kept(segment, "circles", blacklist) \o Kept(segment, "rooms", blacklist)
BroadOf(doc) == toObject(value(toObject(value(toObject(doc), "ocs")), "data"))
ExactOf(doc) == toObject(value(BroadOf(doc), "exact"))

\* C2: after a success response the published list is the non-excluded entries of
\* the broad segment, category by category in the order users, groups, emails,
\* remotes, circles, rooms and in array order within a category, followed by those
\* of the exact segment in the same order.
C2_PublishedOrder ==
    lastResponse.kind = "success"
        => sharees = KeptOfSegment(BroadOf(lastResponse.doc), shareeBlacklist)
                       \o KeptOfSegment(ExactOf(lastResponse.doc), shareeBlacklist)

\* a reply with all six categories in the broad segment and two in the exact one,
\* one entry of each segment excluded
C2_Witness ==
    /\ lastResponse.kind = "success"
    /\ lastResponse.doc = Doc(SegAll, SegMixed)
    /\ shareeBlacklist = <<sRemote, sAnn>>
    /\ Len(sharees) = 6
    /\ sharees[1].type = 1
    /\ sharees[5].shareWith = <<"b", "o", "b">>
    /\ sharees[6].type = 1

\* every candidate of a reply: the parsed entries of all categories of both segments
CandidatesOf(doc) ==
    UNION {{parseSharee(toObject(RawEntries(seg, shareeTypes[k])[i])) :
               i \in 1..Len(RawEntries(seg, shareeTypes[k]))} :
           seg \in {BroadOf(doc), ExactOf(doc)}, k \in 1..6}

\* C3: a candidate of a success response is in the published list iff no blacklist
\* entry has both its type and its identifier.
C3_ExclusionIff ==
    lastResponse.kind = "success"
        => \A c \in CandidatesOf(lastResponse.doc) :
               (\E i \in 1..Len(sharees) : sharees[i] = c)
                   <=> ~(\E i \in 1..Len(shareeBlacklist) :
                            /\ shareeBlacklist[i].type = c.type
                            /\ shareeBlacklist[i].shareWith = c.shareWith)

\* the user ann is excluded; the group with the same identifier and the user with
\* another identifier are published
C3_Witness ==
    /\ lastResponse.kind = "success"
    /\ lastResponse.doc = Doc(SegMixed, EmptyObject)
    /\ shareeBlacklist = <<sAnn>>
    /\ Len(sharees) = 2
    /\ sharees[1] = parseSharee(toObject(eBob))
    /\ sharees[2] = parseSharee(toObject(eAnnGroup))

\* C4: a failure sets fetchOngoing to false, emits fetchOngoingChanged and then
\* displayErrorMessage(statusCode, message), nothing else, and leaves the list alone.
C4_FailureKeepsList ==
    [][ResponseStep /\ lastResponse'.kind = "error"
         => /\ fetchOngoing' = FALSE
            /\ Sigs(emitted') = <<"fetchOngoingChanged", "displayErrorMessage">>
            /\ emitted'[1].fetchOngoing = FALSE
            /\ emitted'[2].args = <<lastResponse'.code, lastResponse'.message>>
            /\ sharees' = sharees
            /\ \A i \in 1..Len(emitted') : emitted'[i].sharees = sharees]_vars

\* a failure was handled while a non-empty list was published
C4_Witness ==
    /\ lastResponse.kind = "error"
    /\ lastResponse.code = 403
    /\ Len(emitted) = 2
    /\ emitted[2].sig = "displayErrorMessage"
    /\ sharees # <<>>
    /\ ~fetchOngoing

\* C5: while the timer started by an edit runs no settle event has fired since that
\* edit, the timer always expires one full interval after the last edit, and it
\* expires once: after an edit either the timer is pending or exactly one settle
\* event has fired; and unless the text keeps changing for ever, the pending
\* settle event does fire.
C5_Debounce ==
    /\ [](timer.active => settles = 0 /\ timer.remaining + sinceEdit = Interval)
    /\ [](settles <= 1)
    /\ [](burst # "none" => (timer.active <=> settles = 0))
    /\ [][SettleStep => sinceEdit = Interval /\ settles = 0 /\ settles' = 1]_vars
    /\ ([]<>(~timer.active) \/ []<><<searchString' # searchString>>_vars)

\* several edits arrived while the timer was running, and one settle event fired
C5_Witness ==
    /\ burst = "several"
    /\ settles = 1
    /\ ~timer.active
    /\ sinceEdit = Interval

\* C6: a timer expiry with a valid session and a non-empty text creates exactly one
\* job, sets fetchOngoing, emits fetchOngoingChanged and then sends the request,
\* whether or not other requests are in flight.
C6_OneFetchPerSettle ==
    [][SettleStep /\ accountState = "valid" /\ searchString # <<>>
         => /\ jobSeq' = jobSeq + 1
            /\ inflight' = inflight \cup {jobSeq + 1}
            /\ Cardinality(inflight') = Cardinality(inflight) + 1
            /\ fetchOngoing' = TRUE
            /\ Sigs(emitted') = <<"fetchOngoingChanged", "getSharees">>
            /\ emitted'[1].fetchOngoing = TRUE
            /\ emitted'[2].fetchOngoing = TRUE]_vars

\* a request was sent while an earlier one was still in flight
C6_Witness ==
    /\ Cardinality(inflight) = 2
    /\ Len(emitted) = 2
    /\ emitted[2].sig = "getSharees"
    /\ settles = 1
    /\ fetchOngoing

\* C7: a timer expiry without a usable session or with an empty text changes
\* nothing and emits nothing; no request carries an empty search text.
C7_SilentNoOp ==
    /\ [][SettleStep /\ (accountState # "valid" \/ searchString = <<>>)
            => /\ emitted' = <<>>
               /\ UNCHANGED <<fetchOngoing, sharees, jobSeq, inflight>>]_vars
    /\ [](\A i \in 1..Len(emitted) :
              emitted[i].sig = "getSharees" => emitted[i].args.search # <<>>)

\* the timer expired on an empty text with a valid session, and nothing was issued
C7_Witness ==
    /\ settles = 1
    /\ searchString = <<>>
    /\ accountState = "valid"
    /\ sinceEdit = Interval
    /\ jobSeq = 0
    /\ emitted = <<>>
    /\ ~fetchOngoing

\* C8: a success emits fetchOngoingChanged (fetchOngoing already false),
\* beginResetModel, endResetModel and shareesReady in this order and nothing else;
\* observers read the old list up to beginResetModel and the new list from
\* endResetModel on.
C8_AtomicPublish ==
    [][ResponseStep /\ lastResponse'.kind = "success"
         => /\ Sigs(emitted') = <<"fetchOngoingChanged", "beginResetModel",
                                  "endResetModel", "shareesReady">>
            /\ \A i \in 1..4 : emitted'[i].fetchOngoing = FALSE
            /\ emitted'[1].sharees = sharees
            /\ emitted'[2].sharees = sharees
            /\ emitted'[3].sharees = sharees'
            /\ emitted'[4].sharees = sharees'
            /\ fetchOngoing' = FALSE]_vars

\* a non-empty list was replaced by a different non-empty list
C8_Witness ==
    /\ lastResponse.kind = "success"
    /\ Len(emitted) = 4
    /\ emitted[2].sharees # <<>>
    /\ emitted[3].sharees # <<>>
    /\ emitted[2].sharees # emitted[3].sharees
    /\ sharees = emitted[4].sharees

\* C9: a read at a row outside [0, size) returns the empty result and does not
\* access the list.
C9_OutOfRangeIsEmpty ==
    dataCall.called /\ (dataCall.row < 0 \/ dataCall.row >= dataCall.size)
        => dataCall.result.kind = "null" /\ dataCall.result.at = "none"

\* C10: the request sent at a timer expiry carries the text, the item kind and the
\* lookup mode of that moment, with page 1 and 50 results per page.
C10_ParamsAtExpiry ==
    [][SettleStep /\ jobSeq' # jobSeq
         => /\ Len(emitted') = 2
            /\ emitted'[2].sig = "getSharees"
            /\ emitted'[2].args =
                   [search |-> searchString,
                    itemType |-> IF shareItemIsFolder THEN "folder" ELSE "file",
                    page |-> 1, perPage |-> 50,
                    lookup |-> (lookupMode = "GlobalSearch")]]_vars

\* the item kind changed between the last edit and the expiry, and the request
\* carries the new one
C10_Witness ==
    /\ Len(emitted) = 2
    /\ emitted[2].sig = "getSharees"
    /\ settles = 1
    /\ emitted[2].args.itemType = "folder"
    /\ emitted[2].args.lookup = TRUE
    /\ folderAtEdit = FALSE

\* what the entries of SegMalformed become: missing strings are empty, a missing
\* type code is 0, an unrecognised code is kept
MalformedExpected ==
    <<[shareWith |-> <<"n">>, displayName |-> <<>>, type |-> 1],
      [shareWith |-> <<>>, displayName |-> <<"L">>, type |-> 0],
      [shareWith |-> <<"u">>, displayName |-> <<"U">>, type |-> 0],
      [shareWith |-> <<>>, displayName |-> <<>>, type |-> 0],
      [shareWith |-> <<"z">>, displayName |-> <<"Z">>, type |-> 3]>>

\* C11: a success response with missing or malformed parts is handled like any
\* other: no displayErrorMessage, fetchOngoing reset, a list published.  Without a
\* data object the list is empty, a missing exact segment or category adds
\* nothing, and an entry's missing parts become the empty string and type 0.
C11_MalformedIsNotAnError ==
    [][ResponseStep /\ lastResponse'.kind = "success"
         => /\ \A i \in 1..Len(emitted') : emitted'[i].sig # "displayErrorMessage"
            /\ Sigs(emitted') = <<"fetchOngoingChanged", "beginResetModel",
                                  "endResetModel", "shareesReady">>
            /\ fetchOngoing' = FALSE
            /\ emitted'[4].sharees = sharees'
            /\ (lastResponse'.doc \in NoDataDocs => sharees' = <<>>)
            /\ (lastResponse'.doc = DocNoExact(SegMalformed)
                  => sharees' = MalformedExpected)
            /\ (lastResponse'.doc = Doc(SegMalformed, EmptyObject)
                  => sharees' = MalformedExpected)
            /\ (lastResponse'.doc = Doc(EmptyObject, SegMalformed)
                  => sharees' = MalformedExpected)
            /\ (lastResponse'.doc = DocNoExact(SegUsers) /\ shareeBlacklist = <<>>
                  => Len(sharees') = 2)]_vars

\* a reply whose only segment holds the malformed entries was published
C11_Witness ==
    /\ lastResponse.kind = "success"
    /\ lastResponse.doc = DocNoExact(SegMalformed)
    /\ sharees = MalformedExpected
    /\ sharees[2].type = 0
    /\ sharees[2].shareWith = <<>>
    /\ ~fetchOngoing
    /\ Len(emitted) = 4
    /\ emitted[4].sig = "shareesReady"

\* the entries of one category of a segment whose candidate satisfies P
CountIn(segment, name, P(_)) ==
    Cardinality({i \in 1..Len(RawEntries(segment, name)) :
                    P(parseSharee(toObject(RawEntries(segment, name)[i])))})
CountInSegment(segment, P(_)) ==
    CountIn(segment, "users", P) + CountIn(segment, "groups", P)
        + CountIn(segment, "emails", P) + CountIn(segment, "remotes", P)
        + CountIn(segment, "circles", P) + CountIn(segment, "rooms", P)
CountInDoc(doc, P(_)) == CountInSegment(BroadOf(doc), P) + CountInSegment(ExactOf(doc), P)

\* C12: nothing is collapsed: the published list has one element per non-excluded
\* raw entry of the reply, and a candidate that is not excluded occurs in it as
\* often as it occurs in the reply, across segments and categories.
C12_DuplicatesKept ==
    lastResponse.kind = "success"
        => /\ Len(sharees) =
                  CountInDoc(lastResponse.doc, LAMBDA c : ~Excluded(c, shareeBlacklist))
           /\ \A c \in CandidatesOf(lastResponse.doc) :
                  ~Excluded(c, shareeBlacklist)
                      => Cardinality({i \in 1..Len(sharees) : sharees[i] = c})
                             = CountInDoc(lastResponse.doc, LAMBDA d : d = c)

\* the same two entries are in the broad and in the exact segment: four elements
C12_Witness ==
    /\ lastResponse.kind = "success"
    /\ lastResponse.doc = Doc(SegUsers, SegUsers)
    /\ shareeBlacklist = <<>>
    /\ Len(sharees) = 4
    /\ sharees[1] = sharees[3]
    /\ sharees[2] = sharees[4]
    /\ sharees[1] # sharees[2]

\* the raw entries of a reply, and those with label, shareWith and shareType
RawOf(doc) ==
    UNION {{RawEntries(seg, shareeTypes[k])[i] :
               i \in 1..Len(RawEntries(seg, shareeTypes[k]))} :
           seg \in {BroadOf(doc), ExactOf(doc)}, k \in 1..6}
WellFormed(e) ==
    /\ e.t = "object"
    /\ {"label", "value"} \subseteq DOMAIN e.o
    /\ e.o.label.t = "string"
    /\ e.o.value.t = "object"
    /\ {"shareWith", "shareType"} \subseteq DOMAIN e.o.value.o
    /\ e.o.value.o.shareWith.t = "string"
    /\ e.o.value.o.shareType.t = "int"
\* the candidate of a well-formed entry, read field by field
CandidateOf(e) ==
    LET v == e.o.value.o
        hasInfo == /\ "shareWithAdditionalInfo" \in DOMAIN v
                   /\ v.shareWithAdditionalInfo.t = "string"
                   /\ Len(v.shareWithAdditionalInfo.s) > 0
    IN  [shareWith |-> v.shareWith.s,
         type |-> v.shareType.n,
         displayName |-> IF hasInfo
                         THEN e.o.label.s \o <<" ", "(">>
                                  \o v.shareWithAdditionalInfo.s \o <<")">>
                         ELSE e.o.label.s]

\* C13: the candidate of a raw entry has the entry's shareWith as identifier, its
\* shareType code as type, whatever the code, and as display name
\* "label (additionalInfo)" when shareWithAdditionalInfo is present and non-empty
\* and the label otherwise: each such candidate that is not excluded is published,
\* and a reply of well-formed entries publishes nothing else.
C13_CandidateFields ==
    lastResponse.kind = "success"
        => /\ \A e \in {r \in RawOf(lastResponse.doc) : WellFormed(r)} :
                  ~Excluded(CandidateOf(e), shareeBlacklist)
                      => \E i \in 1..Len(sharees) : sharees[i] = CandidateOf(e)
           /\ (\A r \in RawOf(lastResponse.doc) : WellFormed(r))
                  => \A i \in 1..Len(sharees) :
                         \E e \in RawOf(lastResponse.doc) : sharees[i] = CandidateOf(e)

\* published: an entry with additional info, one with empty additional info, one
\* without, and one with an unrecognised type code
C13_Witness ==
    /\ lastResponse.kind = "success"
    /\ lastResponse.doc = Doc(SegAll, SegMalformed)
    /\ shareeBlacklist = <<>>
    /\ Len(sharees) = 11
    /\ sharees[1].displayName = <<"A", "n", "n">>
    /\ sharees[3].displayName = <<"M", " ", "(", "w", "o", "r", "k", ")">>
    /\ sharees[3].shareWith = <<"m", "@", "x">>
    /\ sharees[6].displayName = <<"T">>
    /\ sharees[11].type = 3

\* C14: the published list changes only in a step that handles a success
\* response, and then to the list built from that response alone; edits, timer
\* expiries, failures and the other setters leave it as it is.
C14_OnlySuccessReplaces ==
    [][sharees' # sharees
         => /\ ResponseStep
            /\ lastResponse'.kind = "success"
            /\ sharees' = newShareesOf(lastResponse'.doc, shareeBlacklist)]_vars

\* the text was cleared, the timer expired on the empty text, and the results of
\* the earlier search are still published
C14_Witness ==
    /\ searchString = <<>>
    /\ settles = 1
    /\ ~timer.active
    /\ sinceEdit = Interval
    /\ inflight = {}
    /\ sharees # <<>>

\* C15: when no request is in flight fetchOngoing is false, and it is false right
\* after the handling of any response, a success or a failure.
C15_IdleWhenNothingInFlight ==
    /\ [](inflight = {} => ~fetchOngoing)
    /\ [][ResponseStep => ~fetchOngoing']_vars

\* two requests were issued and both answered, the last one by a failure
C15_Witness ==
    /\ jobSeq = 2
    /\ inflight = {}
    /\ lastResponse.kind = "error"
    /\ ~fetchOngoing

\* C16: while a request is in flight fetchOngoing is true.
C16_FetchingWhileInFlight == inflight # {} => fetchOngoing

\* C17: the row count of the root index changes only in a step that emits
\* beginResetModel and then endResetModel.
C17_RowCountChangesInReset ==
    [][rowCount(FALSE, accountState', sharees') # rowCount(FALSE, accountState, sharees)
         => \E i, k \in 1..Len(emitted') :
                /\ i < k
                /\ emitted'[i].sig = "beginResetModel"
                /\ emitted'[k].sig = "endResetModel"]_vars

\* a step that arms the timer or gives a running timer more time
RestartStep == timer'.active /\ (~timer.active \/ timer'.remaining > timer.remaining)

\* C18: the timer is armed or restarted only by a step that changes the search
\* text; a step that leaves the text as it is emits no searchStringChanged; a
\* request is created only when the timer expires; and a change of account state,
\* item kind or lookup mode touches neither the timer nor the requests.
C18_OnlyTextChangeArmsTimer ==
    [][/\ RestartStep => searchString' # searchString
       /\ (searchString' = searchString /\ emitted' # emitted)
              => \A i \in 1..Len(emitted') : emitted'[i].sig # "searchStringChanged"
       /\ jobSeq' # jobSeq => SettleStep
       /\ (\/ accountState' # accountState
           \/ shareItemIsFolder' # shareItemIsFolder
           \/ lookupMode' # lookupMode)
              => /\ timer' = timer
                 /\ jobSeq' = jobSeq
                 /\ inflight' = inflight
                 /\ fetchOngoing' = fetchOngoing]_vars

\* the timer expired on a text without a session; the session was set afterwards,
\* and no request was created
C18_Witness ==
    /\ settles = 1
    /\ searchString # <<>>
    /\ accountState = "valid"
    /\ ~timer.active
    /\ jobSeq = 0
    /\ ~fetchOngoing
    /\ Len(emitted) = 1
    /\ emitted[1].sig = "accountStateChanged"

\* C19: fetchOngoingChanged is emitted only by a step that changes fetchOngoing.
C19_NotifyOnlyOnChange ==
    [][((SettleStep \/ ResponseStep)
          /\ (\E i \in 1..Len(emitted') : emitted'[i].sig = "fetchOngoingChanged"))
         => fetchOngoing' # fetchOngoing]_vars

====
